---- MODULE Spec2Model ----
(***************************************************************************)
(* Model of gst_debugger (src/log_viewer/src/main.rs): the ingestion task  *)
(* run_pipeline_with_tracing, the two mpsc channels, and the consumer      *)
(* GstDebugger::update with its two store sequences.                       *)
(*                                                                         *)
(* Text is a sequence of one-character strings.  Two characters outside    *)
(* ASCII are written by their code point: "U+00E9" (two bytes in UTF-8)    *)
(* and "U+0663" (a Unicode decimal digit that is not an ASCII digit).      *)
(* A u64 is four 16-bit limbs, so that 64-bit values, their overflow and   *)
(* their wrap-around are computed exactly.  A record in a channel or in    *)
(* the store also carries the number of the line it was classified from    *)
(* (field "line"), a history value the program does not hold.              *)
(***************************************************************************)
EXTENDS Integers, Sequences, FiniteSets, TLC

None == [tag |-> "none"]

Some(v) == [tag |-> "some", v |-> v]

\* ------------------------------------------------------------------ u64

\* A u64 is four 16-bit limbs, most significant first.  An operation gives
\* the wrapped value and whether the exact result left the 64 bits.

Limb == 256 * 256

ToU64(n) == <<0, 0, n \div Limb, n % Limb>>

Exact(v) == [v |-> v, ovf |-> FALSE]

\* r * k for a factor k of at most 10000.
Mul(r, k) ==
    LET x  == r.v
        p0 == x[4] * k
        p1 == x[3] * k + p0 \div Limb
        p2 == x[2] * k + p1 \div Limb
        p3 == x[1] * k + p2 \div Limb
    IN [v |-> <<p3 % Limb, p2 % Limb, p1 % Limb, p0 % Limb>>,
        ovf |-> r.ovf \/ p3 \div Limb > 0]

Plus(r, t) ==
    LET x  == r.v
        y  == t.v
        s0 == x[4] + y[4]
        s1 == x[3] + y[3] + s0 \div Limb
        s2 == x[2] + y[2] + s1 \div Limb
        s3 == x[1] + y[1] + s2 \div Limb
    IN [v |-> <<s3 % Limb, s2 % Limb, s1 % Limb, s0 % Limb>>,
        ovf |-> r.ovf \/ t.ovf \/ s3 \div Limb > 0]

U64LT(a, b) ==
    \E i \in 1..4 : a[i] < b[i] /\ \A j \in 1..(i - 1) : a[j] = b[j]

U64GE(a, b) == ~U64LT(a, b)

U64GT(a, b) == U64LT(b, a)

\* ----------------------------------------------------------------- text

AsciiDigits == <<"0", "1", "2", "3", "4", "5", "6", "7", "8", "9">>

IsAsciiDigit(c) == \E i \in 1..Len(AsciiDigits) : AsciiDigits[i] = c

DigitVal(c) == (CHOOSE i \in 1..Len(AsciiDigits) : AsciiDigits[i] = c) - 1

\* UTF-8 length of a character (str::len counts bytes).
ByteLen(c) == IF c \in {"U+00E9", "U+0663"} THEN 2 ELSE 1

RECURSIVE SplitAcc(_, _, _)
SplitAcc(s, ch, cur) ==
    IF s = <<>> THEN <<cur>>
    ELSE IF Head(s) = ch THEN <<cur>> \o SplitAcc(Tail(s), ch, <<>>)
    ELSE SplitAcc(Tail(s), ch, Append(cur, Head(s)))

\* str::split(ch): always at least one part, empty parts kept.
Split(s, ch) == SplitAcc(s, ch, <<>>)

\* str::starts_with
StartsWith(s, p) == Len(p) <= Len(s) /\ SubSeq(s, 1, Len(p)) = p

\* str::parse::<u64>(): an optional '+', then ASCII digits only, no overflow.
ParseU64(s) ==
    LET body == IF s # <<>> /\ Head(s) = "+" THEN Tail(s) ELSE s
        acc[i \in 0..Len(body)] ==
            IF i = 0 THEN Exact(ToU64(0))
            ELSE Plus(Mul(acc[i - 1], 10), Exact(ToU64(DigitVal(body[i]))))
    IN IF body = <<>> THEN None
       ELSE IF \E i \in 1..Len(body) : ~IsAsciiDigit(body[i]) THEN None
       ELSE IF acc[Len(body)].ovf THEN None
       ELSE Some(acc[Len(body)].v)

\* str::parse::<f64>() on what (\d+) captures: ASCII digits give their value
\* (an f64 holds it exactly below 2^53, which every line of the model stays
\* under; a value past 64 bits is still a float, kept here as the largest
\* value), any other decimal digit is refused.
ParseF64(s) ==
    IF \E i \in 1..Len(s) : ~IsAsciiDigit(s[i]) THEN None
    ELSE IF ParseU64(s) = None THEN Some(<<Limb - 1, Limb - 1, Limb - 1, Limb - 1>>)
    ELSE ParseU64(s)

extract_element_name(pad_name) == Split(pad_name, "_")[1]

\* ------------------------------------------------------------ variables

VARIABLES
    build,                \* "debug" (overflow checks on) or "release" (wrapping)
    pipeline,             \* Args.pipeline
    graph,                \* GstDebugger.graph: node names in NodeIndex order
    input,                \* the lines the child will write to its stderr
    ipc,                  \* where run_pipeline_with_tracing stands
    cur,                  \* the line the loop holds
    pending,              \* the record the loop is sending
    nread,                \* lines pulled so far
    file,                 \* tracer_output_<timestamp>.log
    chan,                 \* mpsc channel tx -> receiver
    lat_chan,             \* mpsc channel lat_tx -> latency_receiver
    logs,                 \* GstDebugger.logs
    interlatency,         \* GstDebugger.interlatency
    cpc,                  \* where GstDebugger::update stands
    bitrate_threshold,
    framerate_threshold,
    latency_threshold_ns,
    classifiedAtClear,    \* history: lines classified when the last clear began
    storedAtClear         \* history: lines in the store when the last clear began

vars == <<build, pipeline, graph, input, ipc, cur, pending, nread, file, chan, lat_chan,
          logs, interlatency, cpc, bitrate_threshold, framerate_threshold,
          latency_threshold_ns, classifiedAtClear, storedAtClear>>

\* --------------------------------------------------------------- parsers

Panic == [tag |-> "panic"]

\* u64 arithmetic: checked in a debug build (panic), wrapping in a release one.
U64Result(r) ==
    IF r.ovf /\ build = "debug" THEN Panic ELSE Some(r.v)

parse_duration_to_ns(time_str) ==
    LET parts     == Split(time_str, ":")
        hours     == ParseU64(parts[1])
        minutes   == ParseU64(parts[2])
        secs_frac == Split(parts[3], ".")
        seconds   == ParseU64(secs_frac[1])
        nanos     == ParseU64(IF Len(secs_frac) >= 2 THEN secs_frac[2] ELSE <<"0">>)
    IN IF Len(parts) # 3 THEN None
       ELSE IF hours = None \/ minutes = None \/ seconds = None \/ nanos = None THEN None
       ELSE U64Result(
              Plus(Plus(Plus(Mul(Mul(Mul(Mul(Exact(hours.v), 36), 10000), 10000), 1000),
                             Mul(Mul(Mul(Mul(Exact(minutes.v), 6), 10000), 10000), 100)),
                        Mul(Mul(Mul(Exact(seconds.v), 10), 10000), 10000)),
                   Exact(nanos.v)))

TracingData(element, bitrate, framerate, proctime_ns) ==
    [element |-> element, bitrate |-> bitrate, framerate |-> framerate,
     proctime_ns |-> proctime_ns]

\* A line is what the four regular expressions capture from it: each field
\* is None (no match) or Some(<<capture 1, capture 2, ...>>).
parse_gst_tracer_output(line) ==
    IF line.bitrate_re # None
    THEN LET caps == line.bitrate_re.v
             v    == ParseU64(caps[2])
         IN IF v = None THEN None
            ELSE Some(TracingData(extract_element_name(caps[1]), v, None, None))
    ELSE IF line.framerate_re # None
    THEN LET caps == line.framerate_re.v
             v    == ParseF64(caps[2])
         IN IF v = None THEN None
            ELSE Some(TracingData(extract_element_name(caps[1]), None, v, None))
    ELSE IF line.proctime_re # None
    THEN LET caps == line.proctime_re.v
             ns   == parse_duration_to_ns(caps[2])
         IN IF ns.tag = "some"
            THEN Some(TracingData(extract_element_name(caps[1]), None, None, ns))
            ELSE ns
    ELSE None

InterLatencyData(from, to, time) == [from |-> from, to |-> to, time |-> time]

RECURSIVE StrLen(_)
StrLen(s) == IF s = <<>> THEN 0 ELSE ByteLen(Head(s)) + StrLen(Tail(s))

\* from.truncate(from.len() - 1): the subtraction underflows on an empty
\* string (panic when checked; otherwise a length past the end, which
\* truncate ignores), and truncate panics off a character boundary.
TruncateLast(from) ==
    IF StrLen(from) = 0
    THEN IF build = "debug" THEN Panic ELSE Some(from)
    ELSE IF ByteLen(from[Len(from)]) # 1 THEN Panic
    ELSE Some(SubSeq(from, 1, Len(from) - 1))

parse_interlatency(line) ==
    IF line.interlatency_re = None THEN None
    ELSE LET caps == line.interlatency_re.v
             from == TruncateLast(extract_element_name(caps[1]))
             to   == Split(Split(caps[2], ".")[1], "_")[1]
         IN IF from.tag = "panic" THEN Panic
            ELSE Some(InterLatencyData(from.v, to, caps[3]))

\* ----------------------------------------------------------------- graph

RECURSIVE Rev(_)
Rev(s) == IF s = <<>> THEN <<>> ELSE Rev(Tail(s)) \o <<Head(s)>>

RECURSIVE TrimStart(_)
TrimStart(s) == IF s # <<>> /\ Head(s) = " " THEN TrimStart(Tail(s)) ELSE s

\* str::trim
Trim(s) == Rev(TrimStart(Rev(TrimStart(s))))

RECURSIVE TakeWord(_)
TakeWord(s) == IF s = <<>> \/ Head(s) = " " THEN <<>>
               ELSE <<Head(s)>> \o TakeWord(Tail(s))

\* trimmed.split_whitespace().next().unwrap_or(trimmed)
FirstToken(trimmed) == TakeWord(trimmed)

RECURSIVE AfterEq(_)
AfterEq(tok) == IF tok = <<>> THEN <<>>
                ELSE IF Head(tok) = "=" THEN Tail(tok)
                ELSE AfterEq(Tail(tok))

ElementOf(segment) ==
    LET first_token == FirstToken(Trim(segment))
    IN IF \E i \in 1..Len(first_token) : first_token[i] = "="
       THEN AfterEq(first_token)
       ELSE first_token

\* Mutant: one node per distinct name, as node_map alone would give.
ElementsByName(desc) ==
    LET segs  == Split(desc, "!")
        names == [i \in 1..Len(segs) |-> ElementOf(segs[i])]
        kept[i \in 0..Len(segs)] ==
            IF i = 0 THEN <<>>
            ELSE IF \E j \in 1..(i - 1) : names[j] = names[i] THEN kept[i - 1]
            ELSE Append(kept[i - 1], names[i])
    IN kept[Len(segs)]

\* GstDebugger::new: one node per '!' segment, in order.
Elements(desc) ==
    LET segs == Split(desc, "!")
    IN [i \in 1..Len(segs) |-> ElementOf(segs[i])]

\* graph.add_edge(prev, node): node i is linked to node i + 1.
Edges(g) == {<<i, i + 1>> : i \in 1..(Len(g) - 1)}

Pipelines == { <<"a", " ", "!", " ", "b">> }

\* ----------------------------------------------------------------- lines

Line(b, f, p, i) ==
    [bitrate_re |-> b, framerate_re |-> f, proctime_re |-> p, interlatency_re |-> i]

PadA == <<"a", "0", "_", "s", "r", "c">>

PadB == <<"b", "0", "_", "s", "r", "c">>

PadSink == <<"b", "0", "_", "s", "i", "n", "k">>

Lat7ns == <<"0", ":", "0", "0", ":", "0", "0", ".",
            "0", "0", "0", "0", "0", "0", "0", "0", "7">>

Proc1s == <<"0", ":", "0", "0", ":", "0", "1", ".", "5">>

ProcHuge == <<"9", "9", "9", "9", "9", "9", "9", "9", ":", "0", ":", "0">>

NoiseLine == Line(None, None, None, None)

BitrateLine == Line(Some(<<PadA, <<"5">>>>), None, None, None)

BadBitrateLine == Line(Some(<<PadA, <<"U+0663">>>>), None, None, None)

FramerateLine == Line(None, Some(<<PadSink, <<"3", "0">>>>), None, None)

ProctimeLine == Line(None, None, Some(<<<<"a", "0">>, Proc1s>>), None)

ProcHugeLine == Line(None, None, Some(<<<<"a", "0">>, ProcHuge>>), None)

LatencyLine == Line(None, None, None, Some(<<PadB, PadSink, Lat7ns>>))

LatencyDigitsLine == Line(None, None, None, Some(<<PadB, PadSink, <<"9">>>>))

LatencyNoNameLine == Line(None, None, None, Some(<<<<"_", "s", "r", "c">>, PadSink, Lat7ns>>))

LatencyAccentLine ==
    Line(None, None, None, Some(<<<<"U+00E9", "_", "s", "r", "c">>, PadSink, Lat7ns>>))

CommonLines == {BitrateLine, LatencyLine, BadBitrateLine}

RareLines == {NoiseLine, FramerateLine, ProctimeLine, ProcHugeLine, LatencyDigitsLine,
              LatencyNoNameLine, LatencyAccentLine}

\* ---------------------------------------------------------------- bounds

MaxLines == 3

\* mpsc::channel(100) in main, scaled down so that a full channel is reached.
ChannelCapacity == 2

\* What the child may write: up to MaxLines common lines, or one rare line.
Inputs == UNION {[1..n -> CommonLines] : n \in 0..MaxLines}
          \cup {<<r>> : r \in RareLines}

\* Slider positions: <<min bitrate, min framerate, max latency (ns)>>.
Settings == {<<0, 0, 0>>, <<6, 0, 5>>, <<0, 31, 5>>}

\* ------------------------------------------------------------------ init

Init ==
    /\ build \in {"debug", "release"}
    /\ pipeline \in Pipelines
    /\ graph = Elements(pipeline)
    /\ input \in Inputs
    /\ ipc = "next_line"
    /\ cur = None
    /\ pending = None
    /\ nread = 0
    /\ file = <<>>
    /\ chan = <<>>
    /\ lat_chan = <<>>
    /\ logs = <<>>
    /\ interlatency = <<>>
    /\ cpc = "recv"
    /\ bitrate_threshold = 0
    /\ framerate_threshold = 0
    /\ latency_threshold_ns = 0
    /\ classifiedAtClear = 0
    /\ storedAtClear = {}

consumerVars == <<logs, interlatency, cpc, bitrate_threshold, framerate_threshold,
                  latency_threshold_ns, classifiedAtClear, storedAtClear>>

loopVars == <<ipc, cur, pending, nread, file>>

\* ------------------------------------------- run_pipeline_with_tracing

\* Mutant: the loop is entered again after it has closed.
ReadLineRestarted ==
    /\ ipc \in {"next_line", "closed"}
    /\ nread < Len(input)
    /\ cur' = Some(input[nread + 1])
    /\ nread' = nread + 1
    /\ ipc' = "write"
    /\ UNCHANGED <<build, pipeline, graph, input, pending, file, chan, lat_chan, consumerVars>>

\* lines.next_line() gives Ok(Some(line)).
ReadLine ==
    /\ ipc = "next_line"
    /\ nread < Len(input)
    /\ cur' = Some(input[nread + 1])
    /\ nread' = nread + 1
    /\ ipc' = "write"
    /\ UNCHANGED <<build, pipeline, graph, input, pending, file, chan, lat_chan, consumerVars>>

\* lines.next_line() gives Err (a read failure, a line that is not UTF-8).
ReadError ==
    /\ ipc = "next_line"
    /\ ipc' = "closed"
    /\ UNCHANGED <<build, pipeline, graph, input, cur, pending, nread, file, chan, lat_chan,
                   consumerVars>>

\* lines.next_line() gives Ok(None): the child has exited and every line it
\* wrote has been pulled.
ReadEof ==
    /\ ipc = "next_line"
    /\ nread = Len(input)
    /\ ipc' = "closed"
    /\ UNCHANGED <<build, pipeline, graph, input, cur, pending, nread, file, chan, lat_chan,
                   consumerVars>>

\* The record with the number of the line it was classified from (history).
Stamp(rec) == rec @@ ("line" :> nread)

\* Mutant: only a line that gives a record is written to the log.
WriteOnlyMetrics ==
    /\ ipc = "write"
    /\ cur' = None
    /\ LET entry == parse_gst_tracer_output(cur.v)
           latency == parse_interlatency(cur.v)
       IN IF entry.tag = "some"
          THEN pending' = Stamp(entry.v) /\ ipc' = "send" /\ file' = Append(file, cur.v)
          ELSE IF entry.tag = "panic"
          THEN pending' = None /\ ipc' = "panicked" /\ file' = file
          ELSE IF latency.tag = "some"
          THEN pending' = Stamp(latency.v) /\ ipc' = "send_lat"
               /\ file' = Append(file, cur.v)
          ELSE IF latency.tag = "panic"
          THEN pending' = None /\ ipc' = "panicked" /\ file' = file
          ELSE pending' = None /\ ipc' = "next_line" /\ file' = file
    /\ UNCHANGED <<build, pipeline, graph, input, nread, chan, lat_chan, consumerVars>>

\* file.write_all(line + "\n"), whose Result is dropped and which is taken
\* to succeed, then the two parsers.
WriteAndClassify ==
    /\ ipc = "write"
    /\ file' = Append(file, cur.v)
    /\ cur' = None
    /\ LET entry == parse_gst_tracer_output(cur.v)
           latency == parse_interlatency(cur.v)
       IN IF entry.tag = "some"
          THEN pending' = Stamp(entry.v) /\ ipc' = "send"
          ELSE IF entry.tag = "panic"
          THEN pending' = None /\ ipc' = "panicked"
          ELSE IF latency.tag = "some"
          THEN pending' = Stamp(latency.v) /\ ipc' = "send_lat"
          ELSE IF latency.tag = "panic"
          THEN pending' = None /\ ipc' = "panicked"
          ELSE pending' = None /\ ipc' = "next_line"
    /\ UNCHANGED <<build, pipeline, graph, input, nread, chan, lat_chan, consumerVars>>

\* tx.send(entry).await: waits while the channel is full.
Send ==
    /\ ipc = "send"
    /\ Len(chan) < ChannelCapacity
    /\ chan' = Append(chan, pending)
    /\ pending' = None
    /\ ipc' = "next_line"
    /\ UNCHANGED <<build, pipeline, graph, input, cur, nread, file, lat_chan, consumerVars>>

\* lat_tx.send(latency).await
SendLat ==
    /\ ipc = "send_lat"
    /\ Len(lat_chan) < ChannelCapacity
    /\ lat_chan' = Append(lat_chan, pending)
    /\ pending' = None
    /\ ipc' = "next_line"
    /\ UNCHANGED <<build, pipeline, graph, input, cur, nread, file, chan, consumerVars>>

LoopNext == ReadLine \/ ReadError \/ ReadEof \/ WriteAndClassify \/ Send \/ SendLat

\* -------------------------------------------- what update looks up

RECURSIVE LogsRFind(_, _)
LogsRFind(i, element_name) ==
    IF i = 0 THEN None
    ELSE IF StartsWith(logs[i].element, element_name) THEN Some(logs[i])
    ELSE LogsRFind(i - 1, element_name)

RECURSIVE LogsFind(_, _)
LogsFind(i, element_name) ==
    IF i > Len(logs) THEN None
    ELSE IF StartsWith(logs[i].element, element_name) THEN Some(logs[i])
    ELSE LogsFind(i + 1, element_name)

\* Mutant: the scan without rev().
TracingDataOldestFirst(element_name) == LogsFind(1, element_name)

\* logs.iter().rev().find(|e| e.element.starts_with(&element_name))
TracingDataFor(element_name) == LogsRFind(Len(logs), element_name)

RECURSIVE InterRFind(_, _)
InterRFind(i, name) ==
    IF i = 0 THEN None
    ELSE IF StartsWith(interlatency[i].from, name) THEN Some(interlatency[i])
    ELSE InterRFind(i - 1, name)

\* inter.iter().rev().find(|lat| lat.from.starts_with(to_name))
LatencyFor(to_name) == InterRFind(Len(interlatency), to_name)

UnwrapOr(opt, default) == IF opt = None THEN default ELSE opt.v

\* The label painted on edge <<start, end>>: nothing without a record, else
\* the record's time in red or yellow.
EdgeLabel(edge) ==
    LET latency == LatencyFor(graph[edge[2]])
        latency_val == UnwrapOr(ParseU64(latency.v.time), ToU64(0))
    IN IF latency = None THEN None
       ELSE Some([text |-> latency.v.time,
                  color |-> IF U64GT(latency_val, ToU64(latency_threshold_ns))
                            THEN "RED" ELSE "YELLOW"])

\* The guard of the first match arm of display_text.
PassesThreshold(data) ==
    /\ U64GE(UnwrapOr(data.bitrate, ToU64(0)), ToU64(bitrate_threshold))
    /\ U64GE(UnwrapOr(data.framerate, ToU64(0)), ToU64(framerate_threshold))

\* display_text of a node: the name, with the metrics when the latest record
\* passes the thresholds, and with the processing time when it has one.
NodeText(node) ==
    LET element_name == graph[node]
        tracing_data == TracingDataFor(element_name)
    IN IF tracing_data = None
       THEN [name |-> element_name, metrics |-> None, proctime |-> None]
       ELSE IF PassesThreshold(tracing_data.v)
       THEN [name |-> element_name,
             metrics |-> Some(<<UnwrapOr(tracing_data.v.bitrate, ToU64(0)),
                                UnwrapOr(tracing_data.v.framerate, ToU64(0))>>),
             proctime |-> tracing_data.v.proctime_ns]
       ELSE [name |-> element_name, metrics |-> None,
             proctime |-> tracing_data.v.proctime_ns]

\* ------------------------------------------------- GstDebugger::update

\* Mutant: the record is put in front (insert(0, data)).
RecvLogsInFront ==
    /\ cpc = "recv"
    /\ chan # <<>>
    /\ logs' = <<Head(chan)>> \o logs
    /\ chan' = Tail(chan)
    /\ UNCHANGED <<build, pipeline, graph, input, loopVars, lat_chan, interlatency, cpc,
                   bitrate_threshold, framerate_threshold, latency_threshold_ns,
                   classifiedAtClear, storedAtClear>>

\* Mutant: the record taken from the channel is not pushed.
RecvLogsLost ==
    /\ cpc = "recv"
    /\ chan # <<>>
    /\ logs' = logs
    /\ chan' = Tail(chan)
    /\ UNCHANGED <<build, pipeline, graph, input, loopVars, lat_chan, interlatency, cpc,
                   bitrate_threshold, framerate_threshold, latency_threshold_ns,
                   classifiedAtClear, storedAtClear>>

\* self.receiver.try_recv() gives Ok(data): self.logs.push(data).
RecvLogs ==
    /\ cpc = "recv"
    /\ chan # <<>>
    /\ logs' = Append(logs, Head(chan))
    /\ chan' = Tail(chan)
    /\ UNCHANGED <<build, pipeline, graph, input, loopVars, lat_chan, interlatency, cpc,
                   bitrate_threshold, framerate_threshold, latency_threshold_ns,
                   classifiedAtClear, storedAtClear>>

\* self.receiver.try_recv() gives Err: the first while loop ends.
RecvLogsDone ==
    /\ cpc = "recv"
    /\ chan = <<>>
    /\ cpc' = "recv_lat"
    /\ UNCHANGED <<build, pipeline, graph, input, loopVars, chan, lat_chan, logs, interlatency,
                   bitrate_threshold, framerate_threshold, latency_threshold_ns,
                   classifiedAtClear, storedAtClear>>

\* self.latency_receiver.try_recv() gives Ok(lat): self.interlatency.push(lat).
RecvLat ==
    /\ cpc = "recv_lat"
    /\ lat_chan # <<>>
    /\ interlatency' = Append(interlatency, Head(lat_chan))
    /\ lat_chan' = Tail(lat_chan)
    /\ UNCHANGED <<build, pipeline, graph, input, loopVars, chan, logs, cpc,
                   bitrate_threshold, framerate_threshold, latency_threshold_ns,
                   classifiedAtClear, storedAtClear>>

RecvLatDone ==
    /\ cpc = "recv_lat"
    /\ lat_chan = <<>>
    /\ cpc' = "button"
    /\ UNCHANGED <<build, pipeline, graph, input, loopVars, chan, lat_chan, logs, interlatency,
                   bitrate_threshold, framerate_threshold, latency_threshold_ns,
                   classifiedAtClear, storedAtClear>>

\* Lines the loop has classified so far (the one it holds unwritten is not).
Classified == IF ipc = "write" THEN nread - 1 ELSE nread

Stored == {logs[i].line : i \in 1..Len(logs)}
          \cup {interlatency[i].line : i \in 1..Len(interlatency)}

\* The Refresh button is clicked: self.logs.lock().unwrap().clear().
RefreshLogs ==
    /\ cpc = "button"
    /\ logs' = <<>>
    /\ cpc' = "clear_inter"
    /\ classifiedAtClear' = Classified
    /\ storedAtClear' = Stored
    /\ UNCHANGED <<build, pipeline, graph, input, loopVars, chan, lat_chan, interlatency,
                   bitrate_threshold, framerate_threshold, latency_threshold_ns>>

\* Mutant: the second sequence is left as it is.
RefreshInterForgotten ==
    /\ cpc = "clear_inter"
    /\ cpc' = "sliders"
    /\ UNCHANGED <<build, pipeline, graph, input, loopVars, chan, lat_chan, logs, interlatency,
                   bitrate_threshold, framerate_threshold, latency_threshold_ns,
                   classifiedAtClear, storedAtClear>>

\* ... then self.interlatency.lock().unwrap().clear().
RefreshInter ==
    /\ cpc = "clear_inter"
    /\ interlatency' = <<>>
    /\ cpc' = "sliders"
    /\ UNCHANGED <<build, pipeline, graph, input, loopVars, chan, lat_chan, logs,
                   bitrate_threshold, framerate_threshold, latency_threshold_ns,
                   classifiedAtClear, storedAtClear>>

\* The button is not clicked.
NoRefresh ==
    /\ cpc = "button"
    /\ cpc' = "sliders"
    /\ UNCHANGED <<build, pipeline, graph, input, loopVars, chan, lat_chan, logs, interlatency,
                   bitrate_threshold, framerate_threshold, latency_threshold_ns,
                   classifiedAtClear, storedAtClear>>

\* The three sliders write the thresholds.
Sliders ==
    /\ cpc = "sliders"
    /\ \E set \in Settings :
          /\ bitrate_threshold' = set[1]
          /\ framerate_threshold' = set[2]
          /\ latency_threshold_ns' = set[3]
    /\ cpc' = "render"
    /\ UNCHANGED <<build, pipeline, graph, input, loopVars, chan, lat_chan, logs, interlatency,
                   classifiedAtClear, storedAtClear>>

\* Both locks are taken and the edges and nodes are painted from the store
\* as it stands (EdgeLabel, NodeText); ctx.request_repaint() asks for the
\* next frame.
Render ==
    /\ cpc = "render"
    /\ cpc' = "recv"
    /\ UNCHANGED <<build, pipeline, graph, input, loopVars, chan, lat_chan, logs, interlatency,
                   bitrate_threshold, framerate_threshold, latency_threshold_ns,
                   classifiedAtClear, storedAtClear>>

UpdateNext == RecvLogs \/ RecvLogsDone \/ RecvLat \/ RecvLatDone \/ RefreshLogs
              \/ RefreshInter \/ NoRefresh \/ Sliders \/ Render

Next == LoopNext \/ UpdateNext

Spec == Init /\ [][Next]_vars

\* ------------------------------------------------------ GstDebugger::new

MaxPipelineLen == 5

PipelineChars == {"a", "b", " ", "!", "="}

\* What --pipeline may be given: every text of at most MaxPipelineLen characters.
PipelineStrings == UNION {[1..n -> PipelineChars] : n \in 0..MaxPipelineLen}

\* main, before eframe::run_native calls GstDebugger::new.
GraphInit ==
    /\ build = "release"
    /\ pipeline \in PipelineStrings
    /\ graph = <<>>
    /\ input = <<>>
    /\ ipc = "next_line"
    /\ cur = None
    /\ pending = None
    /\ nread = 0
    /\ file = <<>>
    /\ chan = <<>>
    /\ lat_chan = <<>>
    /\ logs = <<>>
    /\ interlatency = <<>>
    /\ cpc = "new"
    /\ bitrate_threshold = 0
    /\ framerate_threshold = 0
    /\ latency_threshold_ns = 0
    /\ classifiedAtClear = 0
    /\ storedAtClear = {}

\* GstDebugger::new(args.pipeline, rx, lat_rx)
New ==
    /\ cpc = "new"
    /\ graph' = Elements(pipeline)
    /\ logs' = <<>>
    /\ interlatency' = <<>>
    /\ bitrate_threshold' = 0
    /\ framerate_threshold' = 0
    /\ latency_threshold_ns' = 0
    /\ cpc' = "recv"
    /\ UNCHANGED <<build, pipeline, input, loopVars, chan, lat_chan,
                   classifiedAtClear, storedAtClear>>

GraphNext == New

GraphSpec == GraphInit /\ [][GraphNext]_vars

\* ------------------------------------------- the loop on a single line

HoursTexts == {<<"0">>, <<"0", "1">>, <<"1">>,
               <<"5", "1", "2", "4", "0", "9", "5">>,
               <<"9", "9", "9", "9", "9", "9", "9", "9">>}

MinutesTexts == {<<"0", "0">>, <<"0", "2">>, <<"5", "9">>}

SecondsTexts == {<<"0", "0">>, <<"0", "3">>, <<"5", "9">>}

FractionTexts == {<<"0", "0", "0", "0", "0", "0", "0", "0", "0">>,
                  <<"5", "0", "0", "0", "0", "0", "0", "0", "0">>,
                  <<"9", "9", "9", "9", "9", "9", "9", "9", "9">>}

\* H:MM:SS.fraction as the tracer prints it (nine fraction digits).
PrintedDurations ==
    {h \o <<":">> \o m \o <<":">> \o sec \o <<".">> \o f :
        h \in HoursTexts, m \in MinutesTexts, sec \in SecondsTexts, f \in FractionTexts}

\* Texts that \S+ also captures and that are no such duration.
OtherDurations ==
    {<<"0", ":", "0", "0", ":", "0", "1">>,
     <<"0", ":", "0", "0", ":", "0", "1", ".", "5", ".", "7">>,
     <<"0", ":", "0", "1">>,
     <<"0", ":", "0", ":", "0", ":", "0", ".", "5">>,
     <<"x", ":", "0", "0", ":", "0", "1", ".", "5">>,
     <<"0", ":", "0", "0", ":", ".", "5">>,
     <<"0", ":", "0", "0", ":", "0", "1", ".">>,
     <<"0", ":", "y", ":", "0", "1", ".", "5">>,
     <<"0", ":", "0", "0", ":", "0", "1", ".", "z">>}

ProctimeLines ==
    {Line(None, None, Some(<<<<"a", "0">>, t>>), None) :
        t \in PrintedDurations \cup OtherDurations}

\* Lines that more than one of the four patterns match (\d+ takes the digit
\* U+0663, which parse::<u64>() refuses; \S+ takes "x", which is no duration).
BitrateFramerateLine ==
    Line(Some(<<PadA, <<"5">>>>), Some(<<PadSink, <<"3", "0">>>>), None, None)

BadBitrateFramerateLine ==
    Line(Some(<<PadA, <<"U+0663">>>>), Some(<<PadSink, <<"3", "0">>>>), None, None)

BadBitrateLatencyLine ==
    Line(Some(<<PadA, <<"U+0663">>>>), None, None, Some(<<PadB, PadSink, Lat7ns>>))

BadProctimeLatencyLine ==
    Line(None, None, Some(<<<<"a", "0">>, <<"x">>>>), Some(<<PadB, PadSink, Lat7ns>>))

FramerateProctimeLine ==
    Line(None, Some(<<PadSink, <<"3", "0">>>>), Some(<<<<"a", "0">>, Proc1s>>), None)

AllFourLine ==
    Line(Some(<<PadA, <<"5">>>>), Some(<<PadSink, <<"3", "0">>>>),
         Some(<<<<"a", "0">>, Proc1s>>), Some(<<PadB, PadSink, Lat7ns>>))

SeveralMatchLines ==
    {BitrateFramerateLine, BadBitrateFramerateLine, BadBitrateLatencyLine,
     BadProctimeLatencyLine, FramerateProctimeLine, AllFourLine}

ParseLines == CommonLines \cup RareLines \cup ProctimeLines \cup SeveralMatchLines

\* The loop alone, on a child that writes one line.
ParseInit ==
    /\ build \in {"debug", "release"}
    /\ pipeline \in Pipelines
    /\ graph = Elements(pipeline)
    /\ input \in {<<l>> : l \in ParseLines}
    /\ ipc = "next_line"
    /\ cur = None
    /\ pending = None
    /\ nread = 0
    /\ file = <<>>
    /\ chan = <<>>
    /\ lat_chan = <<>>
    /\ logs = <<>>
    /\ interlatency = <<>>
    /\ cpc = "recv"
    /\ bitrate_threshold = 0
    /\ framerate_threshold = 0
    /\ latency_threshold_ns = 0
    /\ classifiedAtClear = 0
    /\ storedAtClear = {}

ParseSpec == ParseInit /\ [][LoopNext]_vars

\* -------------------------------------- names that need normalisation

MaxShortLines == 2

\* "a_x ! b0": a node id with an underscore, and one that ends in a digit.
CorrelatePipelines == { <<"a", "_", "x", " ", "!", " ", "b", "0">> }

PadAX == <<"a", "_", "x", "_", "s", "r", "c">>

UnderscoreBitrateLine == Line(Some(<<PadAX, <<"5">>>>), None, None, None)

CorrelateLines == {UnderscoreBitrateLine, LatencyLine, BitrateLine}

CorrelateInit ==
    /\ build \in {"debug", "release"}
    /\ pipeline \in CorrelatePipelines
    /\ graph = Elements(pipeline)
    /\ input \in UNION {[1..n -> CorrelateLines] : n \in 0..MaxShortLines}
    /\ ipc = "next_line"
    /\ cur = None
    /\ pending = None
    /\ nread = 0
    /\ file = <<>>
    /\ chan = <<>>
    /\ lat_chan = <<>>
    /\ logs = <<>>
    /\ interlatency = <<>>
    /\ cpc = "recv"
    /\ bitrate_threshold = 0
    /\ framerate_threshold = 0
    /\ latency_threshold_ns = 0
    /\ classifiedAtClear = 0
    /\ storedAtClear = {}

CorrelateSpec == CorrelateInit /\ [][Next]_vars

\* ------------------------------------------ while the consumer polls

PadZ == <<"z", "0", "_", "s", "r", "c">>

\* A record whose element is no node of the graph.
UnmatchedLine == Line(Some(<<PadZ, <<"5">>>>), None, None, None)

LiveLines == {BitrateLine, LatencyLine, UnmatchedLine}

LiveInit ==
    /\ build = "release"
    /\ pipeline \in Pipelines
    /\ graph = Elements(pipeline)
    /\ input \in UNION {[1..n -> LiveLines] : n \in 0..MaxShortLines}
    /\ ipc = "next_line"
    /\ cur = None
    /\ pending = None
    /\ nread = 0
    /\ file = <<>>
    /\ chan = <<>>
    /\ lat_chan = <<>>
    /\ logs = <<>>
    /\ interlatency = <<>>
    /\ cpc = "recv"
    /\ bitrate_threshold = 0
    /\ framerate_threshold = 0
    /\ latency_threshold_ns = 0
    /\ classifiedAtClear = 0
    /\ storedAtClear = {}

\* ctx.request_repaint() makes update run frame after frame, and a task
\* waiting in send().await is woken once the channel has room.
LiveSpec ==
    LiveInit /\ [][Next]_vars
    /\ WF_vars(UpdateNext) /\ WF_vars(Send) /\ WF_vars(SendLat)

\* ================================================================ claims

Nodes == 1..Len(graph)

Increasing(seq) == \A i, j \in 1..Len(seq) : i < j => seq[i].line < seq[j].line

\* C1: in each of the two store sequences the records stand in the order
\* in which the loop read and classified their lines, whatever the
\* interleaving of sends and polls.
C1_OrderPreserved == Increasing(logs) /\ Increasing(interlatency)

\* Two records of one sequence and, classified between them, one of the
\* other have all been appended.
C1_Witness ==
    /\ Len(logs) = 2
    /\ Len(interlatency) = 1
    /\ logs[1].line < interlatency[1].line
    /\ interlatency[1].line < logs[2].line

\* C2 (as claimed): after a clear, no lookup returns a record that was
\* classified before the clear began.
C2_NoStaleAfterClear ==
    cpc = "render" =>
        /\ \A n \in Nodes :
              LET r == TracingDataFor(graph[n])
              IN r # None => r.v.line > classifiedAtClear
        /\ \A e \in Edges(graph) :
              LET r == LatencyFor(graph[e[2]])
              IN r # None => r.v.line > classifiedAtClear

\* C3: no append and no lookup of update sees a store of which one
\* sequence still holds records from before the last clear.
C3_ClearAtomic ==
    cpc \in {"recv", "recv_lat", "render"} => Stored \cap storedAtClear = {}

\* A clear took a record out of each sequence and the frame is painted.
C3_Witness ==
    /\ cpc = "render"
    /\ \E i, j \in storedAtClear : input[i] = BitrateLine /\ input[j] = LatencyLine
    /\ Stored = {}

\* C4 (as claimed): whenever the loop holds a record to publish, the send
\* can be taken, whatever the consumer does.
C4_SendNeverBlocked ==
    /\ ipc = "send" => ENABLED Send
    /\ ipc = "send_lat" => ENABLED SendLat

\* C5: once closed the loop stays closed: it reads no line, writes no log
\* line and publishes no record.
C5_ClosedIsTerminal ==
    [][ipc = "closed" =>
         /\ ipc' = "closed"
         /\ nread' = nread
         /\ file' = file
         /\ pending' = pending
         /\ Len(chan') <= Len(chan)
         /\ Len(lat_chan') <= Len(lat_chan)]_vars

\* The loop closed on a read failure with lines still to come, and update
\* has taken a record from the channel since.
C5_Witness ==
    /\ ipc = "closed"
    /\ nread < Len(input)
    /\ logs # <<>>
    /\ cpc = "render"

\* C6 (as claimed): once the child has exited and all its lines are pulled,
\* the loop ends in CLOSED: it is still at work on the last line, or waiting
\* for room in a channel that update keeps emptying, or it has closed.
C6_EndsClosed ==
    nread = Len(input) => ipc \in {"next_line", "write", "send", "send_lat", "closed"}

\* C7 (as claimed): no line makes the loop panic.
C7_NeverPanics == ipc # "panicked"

\* C8: a lookup returns the last appended record whose stored name starts
\* with the entity's id, and nothing only when no stored record does.
C8_LatestWins ==
    cpc = "render" =>
        /\ \A n \in Nodes :
              LET M == {i \in 1..Len(logs) : StartsWith(logs[i].element, graph[n])}
                  r == TracingDataFor(graph[n])
              IN IF M = {} THEN r = None
                 ELSE \E i \in M : r = Some(logs[i]) /\ \A j \in M : j <= i
        /\ \A e \in Edges(graph) :
              LET M == {i \in 1..Len(interlatency) :
                          StartsWith(interlatency[i].from, graph[e[2]])}
                  r == LatencyFor(graph[e[2]])
              IN IF M = {} THEN r = None
                 ELSE \E i \in M : r = Some(interlatency[i]) /\ \A j \in M : j <= i

\* Two records of node 1 are stored, in append order, when it is looked up.
C8_Witness ==
    /\ cpc = "render"
    /\ Len(logs) >= 2
    /\ StartsWith(logs[1].element, graph[1])
    /\ StartsWith(logs[2].element, graph[1])
    /\ TracingDataFor(graph[1]) = Some(logs[2])

\* C9 (as claimed): the latest record of a node passes iff each field it
\* carries meets its bound; a field it does not carry counts as met.
C9_AbsentFieldPasses ==
    cpc = "render" =>
        \A n \in Nodes :
            LET r == TracingDataFor(graph[n])
            IN r # None =>
                 (NodeText(n).metrics # None <=>
                    /\ r.v.bitrate = None
                       \/ U64GE(r.v.bitrate.v, ToU64(bitrate_threshold))
                    /\ r.v.framerate = None
                       \/ U64GE(r.v.framerate.v, ToU64(framerate_threshold)))

\* The latency a record's time string states, in nanoseconds: the duration
\* H:MM:SS.fraction, or the number when the string is a plain number.
LatencyNs(time) ==
    IF parse_duration_to_ns(time).tag = "some" THEN parse_duration_to_ns(time).v
    ELSE UnwrapOr(ParseU64(time), ToU64(0))

\* C10 (as claimed): an edge with a matching record always shows it, in red
\* exactly when the record's latency exceeds max_latency_ns.
C10_FlaggedIffAbove ==
    cpc = "render" =>
        \A e \in Edges(graph) :
            LET r == LatencyFor(graph[e[2]])
            IN r # None =>
                 /\ EdgeLabel(e) # None
                 /\ EdgeLabel(e).v.color = "RED"
                      <=> U64GT(LatencyNs(r.v.time), ToU64(latency_threshold_ns))

\* C11 (as claimed): an empty pipeline description gives a graph with no
\* node and no edge.
C11_EmptyPipelineEmptyGraph ==
    (cpc = "recv" /\ pipeline = <<>>) => (Len(graph) = 0 /\ Edges(graph) = {})

\* The positions of '!' in the description, and the bounds of segment k.
Bangs == {i \in 1..Len(pipeline) : pipeline[i] = "!"}

Bang(k) == CHOOSE i \in Bangs : Cardinality({b \in Bangs : b <= i}) = k

SegFirst(k) == IF k = 1 THEN 1 ELSE Bang(k - 1) + 1

SegLast(k) == IF k = Cardinality(Bangs) + 1 THEN Len(pipeline) ELSE Bang(k) - 1

\* t is the first whitespace-delimited token of segment k.
IsFirstToken(t, k) ==
    \E f \in SegFirst(k)..SegLast(k) :
        /\ \A i \in SegFirst(k)..(f - 1) : pipeline[i] = " "
        /\ t # <<>>
        /\ f + Len(t) - 1 <= SegLast(k)
        /\ t = SubSeq(pipeline, f, f + Len(t) - 1)
        /\ \A i \in 1..Len(t) : t[i] # " "
        /\ f + Len(t) - 1 = SegLast(k) \/ pipeline[f + Len(t)] = " "

\* C12: a description without name= aliasing gives one node per segment,
\* node k named by the first token of segment k, and the edges
\* node k -> node k + 1 and no other; equal names keep their own nodes.
C12_OneNodePerSegment ==
    (cpc = "recv" /\ \A i \in 1..Len(pipeline) : pipeline[i] # "=") =>
        /\ Len(graph) = Cardinality(Bangs) + 1
        /\ Cardinality(Edges(graph)) = Cardinality(Bangs)
        /\ \A k \in 1..Cardinality(Bangs) : <<k, k + 1>> \in Edges(graph)
        /\ \A k \in 1..(Cardinality(Bangs) + 1) :
              (\E i \in SegFirst(k)..SegLast(k) : pipeline[i] # " ")
                  => IsFirstToken(graph[k], k)

\* "a!b!a" has been built: three nodes, the first and the last of one name.
C12_Witness ==
    /\ cpc = "recv"
    /\ pipeline = <<"a", "!", "b", "!", "a">>
    /\ graph = << <<"a">>, <<"b">>, <<"a">> >>
    /\ Edges(graph) = {<<1, 2>>, <<2, 3>>}

\* The records the loop has made of the one line of its input: the one it
\* is sending and those in the channels (ParseSpec has no consumer).
Yield ==
    (IF pending = None THEN {} ELSE {pending})
    \cup {chan[i] : i \in 1..Len(chan)}
    \cup {lat_chan[i] : i \in 1..Len(lat_chan)}

AllDigits(t) == t # <<>> /\ \A i \in 1..Len(t) : IsAsciiDigit(t[i])

\* hours, minutes and seconds-with-one-fraction, each numeric.
WellFormed(time) ==
    /\ Len(Split(time, ":")) = 3
    /\ AllDigits(Split(time, ":")[1])
    /\ AllDigits(Split(time, ":")[2])
    /\ Len(Split(Split(time, ":")[3], ".")) = 2
    /\ AllDigits(Split(Split(time, ":")[3], ".")[1])
    /\ AllDigits(Split(Split(time, ":")[3], ".")[2])

\* hours*3_600_000_000_000 + minutes*60_000_000_000 + seconds*1_000_000_000
\* + fraction of a well-formed duration, with whether it leaves 64 bits.
ExactNs(time) ==
    LET parts == Split(time, ":")
        sf    == Split(parts[3], ".")
        h     == Exact(ParseU64(parts[1]).v)
        m     == Exact(ParseU64(parts[2]).v)
        sec   == Exact(ParseU64(sf[1]).v)
        f     == Exact(ParseU64(sf[2]).v)
    IN Plus(Plus(Mul(Mul(Mul(Mul(h, 3600), 10000), 10000), 10),
                 Mul(Mul(Mul(Mul(m, 60), 10000), 10000), 10)),
            Plus(Mul(Mul(Mul(sec, 1000), 1000), 1000), f))

\* The line has been classified and only the processing-time pattern
\* matches it.
ProctimeLineDone ==
    /\ Len(file) = 1
    /\ input[1].proctime_re # None
    /\ input[1].bitrate_re = None
    /\ input[1].framerate_re = None
    /\ input[1].interlatency_re = None

\* C13 (as claimed): a well-formed printed duration gives a record whose
\* nanoseconds are the exact sum, which fits 64 bits; the loop neither
\* aborts nor stores a wrapped value.
C13_ExactNanoseconds ==
    (ProctimeLineDone /\ input[1].proctime_re.v[2] \in PrintedDurations) =>
        /\ ipc # "panicked"
        /\ ~ExactNs(input[1].proctime_re.v[2]).ovf
        /\ \E r \in Yield : r.proctime_ns = Some(ExactNs(input[1].proctime_re.v[2]).v)

\* C14 (as claimed): a malformed duration gives no record.
C14_MalformedYieldsNothing ==
    (ProctimeLineDone /\ ~WellFormed(input[1].proctime_re.v[2])) => Yield = {}

\* The first of the four patterns, in priority order, that matches the line.
TopGrammar(line) ==
    IF line.bitrate_re # None THEN "bitrate"
    ELSE IF line.framerate_re # None THEN "framerate"
    ELSE IF line.proctime_re # None THEN "proctime"
    ELSE IF line.interlatency_re # None THEN "interlatency"
    ELSE "none"

Kind(r) ==
    IF "from" \in DOMAIN r THEN "interlatency"
    ELSE IF r.bitrate # None THEN "bitrate"
    ELSE IF r.framerate # None THEN "framerate"
    ELSE "proctime"

\* C18 (as claimed): a line gives at most one record, in one channel, and
\* that record is of the first pattern that matches the line; a line no
\* pattern matches gives none.
C18_FirstMatchOnly ==
    Len(file) = 1 =>
        /\ Cardinality(Yield) <= 1
        /\ Len(chan) + Len(lat_chan) <= 1
        /\ \A r \in Yield : Kind(r) = TopGrammar(input[1])

\* C15 (as claimed): the loop leaves its running state by a read failure or
\* by end of stream with different outcomes: no step that ends the loop is
\* both the one and the other.
C15_ExitStatusDistinguishes ==
    [][(ipc = "next_line" /\ ipc' = "closed") => ~(ReadError /\ ReadEof)]_vars

\* The element name as the log line gave it, before any normalisation.
RawName(rec) ==
    IF rec.bitrate # None THEN input[rec.line].bitrate_re.v[1]
    ELSE IF rec.framerate # None THEN input[rec.line].framerate_re.v[1]
    ELSE input[rec.line].proctime_re.v[1]

\* C16 (as claimed): a node's lookup returns the latest stored record whose
\* raw element name starts with the node's id, and none only when no stored
\* record's raw name does.
C16_PrefixOfRawName ==
    cpc = "render" =>
        \A n \in Nodes :
            LET M == {i \in 1..Len(logs) : StartsWith(RawName(logs[i]), graph[n])}
                r == TracingDataFor(graph[n])
            IN IF M = {} THEN r = None
               ELSE \E i \in M : r = Some(logs[i]) /\ \A j \in M : j <= i

\* The source pad's name as the log line gave it: the endpoint the code
\* matches against an edge's target.
RawFrom(lat) == input[lat.line].interlatency_re.v[1]

\* C17 (as claimed): an edge's lookup finds a latency record whenever the
\* raw name of the record's matched endpoint starts with the id of the
\* edge's target.
C17_TargetEndpointRule ==
    cpc = "render" =>
        \A e \in Edges(graph) :
            (\E i \in 1..Len(interlatency) :
                 StartsWith(RawFrom(interlatency[i]), graph[e[2]]))
                => LatencyFor(graph[e[2]]) # None

\* Every record the loop has made and that is still held somewhere.
Records ==
    (IF pending = None THEN {} ELSE {pending})
    \cup {chan[i] : i \in 1..Len(chan)}
    \cup {lat_chan[i] : i \in 1..Len(lat_chan)}
    \cup {logs[i] : i \in 1..Len(logs)}
    \cup {interlatency[i] : i \in 1..Len(interlatency)}

InFlight ==
    {r.line : r \in (IF pending = None THEN {} ELSE {pending})
                    \cup {chan[i] : i \in 1..Len(chan)}
                    \cup {lat_chan[i] : i \in 1..Len(lat_chan)}}

\* C20: no record is held twice; a record leaves a channel only into its
\* sequence, and a sequence changes only by the append of the channel's
\* head or by the clear; every record on its way is eventually appended,
\* whether or not a node matches it.
C20_NoLossNoDup ==
    /\ [](Cardinality({r.line : r \in Records})
            = Len(chan) + Len(lat_chan) + Len(logs) + Len(interlatency)
              + (IF pending = None THEN 0 ELSE 1))
    /\ [][/\ \/ logs' = logs
             \/ chan # <<>> /\ logs' = Append(logs, Head(chan)) /\ chan' = Tail(chan)
             \/ cpc = "button" /\ logs' = <<>>
          /\ \/ interlatency' = interlatency
             \/ /\ lat_chan # <<>>
                /\ interlatency' = Append(interlatency, Head(lat_chan))
                /\ lat_chan' = Tail(lat_chan)
             \/ cpc = "clear_inter" /\ interlatency' = <<>>
          /\ chan' # chan => \/ chan' = Append(chan, pending)
                              \/ logs' = Append(logs, Head(chan))
          /\ lat_chan' # lat_chan => \/ lat_chan' = Append(lat_chan, pending)
                                      \/ interlatency' = Append(interlatency, Head(lat_chan))
         ]_vars
    /\ \A k \in 1..MaxShortLines : (k \in InFlight) ~> (k \in Stored)

\* A record that no node matches and a latency record are both stored.
C20_Witness ==
    /\ cpc = "render"
    /\ Len(logs) = 1
    /\ logs[1].element = <<"z", "0">>
    /\ TracingDataFor(graph[1]) = None
    /\ TracingDataFor(graph[2]) = None
    /\ Len(interlatency) = 1

====
